---- MODULE Spec2Model ----
(***************************************************************************)
(* MoZuku: the MeCab engine manager (mecab_manager.cpp) and the analyzer   *)
(* built on it (analyzer.cpp), as a state machine.                         *)
(*                                                                         *)
(* A client owns either a bare MeCabManager or an Analyzer (which owns a   *)
(* MeCabManager constructed with enableCaboCha = true).  Every public      *)
(* operation is one atomic action that runs the whole method and leaves    *)
(* its arguments, the answers the environment gave (MeCab, mecab-config,   *)
(* dicrc) and its return value in `last`; the caller then takes the        *)
(* result (Resume) before it issues the next call.                         *)
(*                                                                         *)
(* Text is a sequence of bytes (integers 0..255).  Engine handles are      *)
(* positive integers, NULL is 0; liveTaggers is the set of handles that    *)
(* MeCab::createTagger has returned and nobody has deleted yet.            *)
(***************************************************************************)
EXTENDS Integers, Sequences, FiniteSets, TLC

VARIABLES
    owner,              \* "manager": a bare MeCabManager; "analyzer": an Analyzer
    alive,              \* the object has been constructed and not destroyed
    mecab_tagger_,      \* MeCabManager::mecab_tagger_
    cabocha_parser_,    \* MeCabManager::cabocha_parser_
    system_charset_,    \* MeCabManager::system_charset_
    cabocha_available_, \* MeCabManager::cabocha_available_
    enable_cabocha_,    \* MeCabManager::enable_cabocha_
    analyzer_charset_,  \* Analyzer::system_charset_
    liveTaggers,        \* MeCab taggers constructed and not yet deleted
    liveParsers,        \* CaboCha parsers constructed and not yet destroyed
    nextHandle,         \* the next handle the engine library hands out
    MOZUKU_ENABLE_CABOCHA, \* the build compiles the CaboCha branch of analyzer.cpp
    cabochaWorks,       \* CaboCha is installed: cabocha_new would return a parser
    initState,          \* outcome of the latest initialize on this object
    pc,                 \* "idle": the caller may call; "returned": a result is pending
    last,               \* the latest call: arguments, environment, result
    contexts,           \* where each execution context stands inside its call
    serialized          \* no context has begun a call while another was inside one

vars == <<owner, alive, mecab_tagger_, cabocha_parser_, system_charset_,
          cabocha_available_, enable_cabocha_, analyzer_charset_, liveTaggers,
          liveParsers, nextHandle, MOZUKU_ENABLE_CABOCHA, cabochaWorks,
                   contexts, serialized, initState,
          pc, last>>

managerVars == <<mecab_tagger_, cabocha_parser_, system_charset_,
                 cabocha_available_, enable_cabocha_>>

-----------------------------------------------------------------------------
(* Bounds of the model.                                                    *)

\* Handles the engine library hands out over one run.
MaxHandles == 2
\* Characters of an analysed text.
MaxTextChars == 1
\* Content (non-sentinel) nodes of one parse.
MaxNodes == 1
\* Characters of a text and content nodes of a parse when positions are
\* examined.
MaxAlignChars == 2
MaxAlignNodes == 2
\* Execution contexts that call one Analyzer.
NumContexts == 2

-----------------------------------------------------------------------------
(* Program constants.                                                      *)

NULL == 0

\* Byte length the charset probe expects of the test text.
ProbeSurfaceSize == 6

UTF8 == "UTF-8"
EUCJP == "EUC-JP"

\* mecab.h node kinds.
MECAB_NOR_NODE == "NOR"
MECAB_BOS_NODE == "BOS"
MECAB_EOS_NODE == "EOS"

\* The probe text of detectSystemMeCab and testMeCabCharset, in UTF-8 bytes.
testUtf8 == <<232, 170, 164, 232, 167, 163>>

-----------------------------------------------------------------------------
(* Bytes, texts and engine nodes.                                          *)

\* "a"
ByteA == <<97>>
\* U+8AA4 in UTF-8 and in EUC-JP
GoUtf8 == <<232, 170, 164>>
GoEuc == <<184, 237>>
\* a lone UTF-8 continuation byte: ill-formed on its own
LoneCont == <<164>>

RECURSIVE Flatten(_)
Flatten(ss) == IF ss = <<>> THEN <<>> ELSE Head(ss) \o Flatten(Tail(ss))

RECURSIVE SeqsUpTo(_, _)
SeqsUpTo(S, n) ==
    IF n = 0 THEN {<<>>}
    ELSE LET shorter == SeqsUpTo(S, n - 1)
         IN  shorter \cup {Append(s, x) : s \in shorter, x \in S}

\* The texts a caller passes to analyzeText / analyzeDependencies.
TextUnits == {ByteA, GoUtf8, LoneCont}
Texts == {Flatten(us) : us \in SeqsUpTo(TextUnits, MaxTextChars)}

\* The surfaces (bytes in the engine's charset) a node may carry.
Surfaces == {<<>>, ByteA, ByteA \o ByteA, GoUtf8, GoEuc, GoUtf8 \o ByteA}

Node(stat, surface) == [stat |-> stat, surface |-> surface]
BOS == Node(MECAB_BOS_NODE, <<>>)
EOS == Node(MECAB_EOS_NODE, <<>>)

\* What Tagger::parseToNode may return: <<>> stands for nullptr, any other
\* value is the node list BOS, content nodes, EOS.
Parses ==
    {<<>>} \cup
    {<<BOS>> \o ns \o <<EOS>> :
        ns \in SeqsUpTo({Node(MECAB_NOR_NODE, s) : s \in Surfaces}, MaxNodes)}

\* What parseToNode may return for the probe text: nullptr, the text as one
\* node, the text as two nodes of one character, six other bytes, and the
\* text carried by a sentinel only.
ProbeParses ==
    { <<>>,
      <<BOS, Node(MECAB_NOR_NODE, testUtf8), EOS>>,
      <<BOS, Node(MECAB_NOR_NODE, GoUtf8), Node(MECAB_NOR_NODE, <<232, 167, 163>>), EOS>>,
      <<BOS, Node(MECAB_NOR_NODE, <<184, 237, 178, 242, 63, 63>>), EOS>>,
      <<Node(MECAB_BOS_NODE, testUtf8), EOS>> }

\* '\n'
LF == 10

\* Texts with line breaks and a character of four bytes, and parses whose
\* surfaces may begin inside a character of the text.
Emoji == <<240, 159, 152, 128>>
GoTail == <<170, 164>>
AlignUnits == {ByteA, <<LF>>, GoUtf8, Emoji}
AlignTexts == {Flatten(us) : us \in SeqsUpTo(AlignUnits, MaxAlignChars)}
AlignSurfaces == {<<>>, ByteA, GoUtf8, Emoji, GoTail}
\* The texts computeByteOffset is given: those, and those cut off before
\* their last byte.
OffsetTexts ==
    AlignTexts \cup {SubSeq(t, 1, Len(t) - 1) : t \in AlignTexts \ {<<>>}}
AlignParses ==
    {<<>>} \cup
    {<<BOS>> \o ns \o <<EOS>> :
        ns \in SeqsUpTo({Node(MECAB_NOR_NODE, s) : s \in AlignSurfaces}, MaxAlignNodes)}

Charsets == {UTF8, EUCJP}
DicPaths == {"", "/opt/dic"}
DicDirs == {"", "/usr/lib/mecab/dic"}

-----------------------------------------------------------------------------
(* Collaborators whose code is outside the two source files: the UTF-8     *)
(* sanitizer and the charset converters.                                   *)

IsCont(b) == b >= 128 /\ b <= 191

\* text::TextProcessor::sanitizeUTF8: well-formed sequences are kept, bytes
\* that belong to no well-formed sequence are dropped.
RECURSIVE sanitizeUTF8(_)
sanitizeUTF8(t) ==
    IF t = <<>> THEN <<>>
    ELSE IF Head(t) < 128 THEN <<Head(t)>> \o sanitizeUTF8(Tail(t))
    ELSE IF Head(t) >= 192 /\ Head(t) < 224 /\ Len(t) >= 2 /\ IsCont(t[2])
         THEN SubSeq(t, 1, 2) \o sanitizeUTF8(SubSeq(t, 3, Len(t)))
    ELSE IF Head(t) >= 224 /\ Head(t) < 240 /\ Len(t) >= 3 /\ IsCont(t[2]) /\ IsCont(t[3])
         THEN SubSeq(t, 1, 3) \o sanitizeUTF8(SubSeq(t, 4, Len(t)))
    ELSE IF Head(t) >= 240 /\ Head(t) < 248 /\ Len(t) >= 4 /\ IsCont(t[2]) /\ IsCont(t[3])
            /\ IsCont(t[4])
         THEN SubSeq(t, 1, 4) \o sanitizeUTF8(SubSeq(t, 5, Len(t)))
    ELSE sanitizeUTF8(Tail(t))

\* encoding::systemToUtf8: nothing to do for UTF-8; otherwise every EUC-JP
\* character is re-encoded, and bytes that are no EUC-JP character are lost.
RECURSIVE systemToUtf8(_, _)
systemToUtf8(s, charset) ==
    IF charset = UTF8 \/ s = <<>> THEN s
    ELSE IF Head(s) < 128 THEN <<Head(s)>> \o systemToUtf8(Tail(s), charset)
    ELSE IF Len(s) >= 2 /\ SubSeq(s, 1, 2) = GoEuc
         THEN GoUtf8 \o systemToUtf8(SubSeq(s, 3, Len(s)), charset)
    ELSE systemToUtf8(Tail(s), charset)

\* encoding::utf8ToSystem: the inverse direction.
RECURSIVE utf8ToSystem(_, _)
utf8ToSystem(t, charset) ==
    IF charset = UTF8 \/ t = <<>> THEN t
    ELSE IF Head(t) < 128 THEN <<Head(t)>> \o utf8ToSystem(Tail(t), charset)
    ELSE IF Len(t) >= 3 /\ SubSeq(t, 1, 3) = GoUtf8
         THEN GoEuc \o utf8ToSystem(SubSeq(t, 4, Len(t)), charset)
    ELSE utf8ToSystem(Tail(t), charset)

-----------------------------------------------------------------------------
(* The environment of one initialize call: what mecab-config prints, what  *)
(* dicrc declares, and what MeCab answers.                                 *)

NoEnv == [dicdir |-> "", dicrc |-> "", testOk |-> FALSE, testParse |-> <<>>,
          ok1 |-> FALSE, ok2 |-> FALSE, probeParse |-> <<>>]

Envs == [dicdir : DicDirs,          \* first line of `mecab-config --dicdir`, "" if none
         dicrc : Charsets \cup {""}, \* config-charset of <dicdir>/ipadic/dicrc, "" if none
         testOk : BOOLEAN,          \* createTagger("") of the discovery probe succeeds
         testParse : ProbeParses,   \* what the discovery probe tagger parses
         ok1 : BOOLEAN,             \* createTagger(mecab_args) succeeds
         ok2 : BOOLEAN,             \* createTagger("") of the fallback succeeds
         probeParse : ProbeParses]  \* what the constructed tagger parses

-----------------------------------------------------------------------------
(* MeCabManager::detectSystemMeCab and MeCabManager::testMeCabCharset.     *)

IsSentinel(n) == n.stat = MECAB_BOS_NODE \/ n.stat = MECAB_EOS_NODE

\* The loop of the discovery probe: some content node carries the test text.
utf8Works(testNode) ==
    \E i \in 1..Len(testNode) :
        /\ ~IsSentinel(testNode[i])
        /\ testNode[i].surface = testUtf8
        /\ Len(testNode[i].surface) = ProbeSurfaceSize

\* Mutant: a charset is reported only when dicrc declares one.
detectSystemMeCab_NoDefault(env) ==
    LET dicPath == env.dicdir
        declared == IF dicPath # "" THEN env.dicrc ELSE ""
        charset ==
            IF declared # "" /\ declared # UTF8 /\ env.testOk /\ utf8Works(env.testParse)
            THEN UTF8
            ELSE declared
    IN  [isAvailable |-> dicPath # "", dicPath |-> dicPath, charset |-> charset]

detectSystemMeCab(env) ==
    LET dicPath == env.dicdir
        declared == IF dicPath # "" THEN env.dicrc ELSE ""
        charset ==
            IF declared = "" THEN UTF8
            ELSE IF declared # UTF8 /\ env.testOk /\ utf8Works(env.testParse) THEN UTF8
            ELSE declared
    IN  [isAvailable |-> dicPath # "", dicPath |-> dicPath, charset |-> charset]

\* Mutant: a surface of six bytes is taken for the test text.
testMeCabCharset_LengthOnly(tagger, originalCharset, testNode) ==
    IF tagger = NULL \/ originalCharset = UTF8 THEN originalCharset
    ELSE IF \E i \in 1..Len(testNode) :
                /\ ~IsSentinel(testNode[i])
                /\ Len(testNode[i].surface) = ProbeSurfaceSize
         THEN UTF8
    ELSE originalCharset

testMeCabCharset(tagger, originalCharset, testNode) ==
    IF tagger = NULL \/ originalCharset = UTF8 THEN originalCharset
    ELSE IF \E i \in 1..Len(testNode) :
                /\ ~IsSentinel(testNode[i])
                /\ testNode[i].surface = testUtf8
                /\ Len(testNode[i].surface) = ProbeSurfaceSize
         THEN UTF8
    ELSE originalCharset

-----------------------------------------------------------------------------
(* MeCabManager::initialize, piece by piece.                               *)

\* A default-constructed SystemLibInfo, with isAvailable set when a
\* dictionary path was given.
GivenPathInfo == [isAvailable |-> TRUE, dicPath |-> "", charset |-> ""]

systemMeCabOf(mecabDicPath, env) ==
    IF mecabDicPath = "" THEN detectSystemMeCab(env) ELSE GivenPathInfo

\* Mutant: with no charset given or discovered, the charset is left as it was.
ResolveCharset_KeepOld(mecabCharset, systemMeCab) ==
    IF mecabCharset # "" THEN mecabCharset
    ELSE IF systemMeCab.charset # "" THEN systemMeCab.charset
    ELSE system_charset_

ResolveCharset(mecabCharset, systemMeCab) ==
    IF mecabCharset # "" THEN mecabCharset
    ELSE IF systemMeCab.charset # "" THEN systemMeCab.charset
    ELSE UTF8

\* mecab_args: <<>> is the empty argument string.
mecab_args(mecabDicPath, systemMeCab) ==
    IF mecabDicPath # "" THEN <<"-d", mecabDicPath>>
    ELSE IF systemMeCab.isAvailable /\ systemMeCab.dicPath # ""
         THEN <<"-d", systemMeCab.dicPath, "/ipadic">>
    ELSE <<>>

\* MeCab::createTagger: a fresh handle, or NULL.
createTagger(ok, h) == IF ok THEN h ELSE NULL

\* Mutant: a failed call leaves the handle it found in place.
ConstructPrimary_KeepOld(old, args, env, h) ==
    LET first == createTagger(env.ok1, h)
        second == createTagger(env.ok2, h)
    IN  IF first # NULL THEN [tagger |-> first, tried |-> <<args>>]
        ELSE IF args # <<>>
             THEN [tagger |-> IF second # NULL THEN second ELSE old, tried |-> <<args, <<>>>>]
        ELSE [tagger |-> old, tried |-> <<args>>]

\* Mutant: no second attempt.
ConstructPrimary_NoFallback(old, args, env, h) ==
    [tagger |-> createTagger(env.ok1, h), tried |-> <<args>>]

\* The construction attempts: mecab_tagger_ afterwards, and the argument
\* strings createTagger was called with for it, in order.  old is
\* mecab_tagger_ before the call.
ConstructPrimary(old, args, env, h) ==
    LET first == createTagger(env.ok1, h)
    IN  IF first # NULL THEN [tagger |-> first, tried |-> <<args>>]
        ELSE IF args # <<>>
             THEN [tagger |-> createTagger(env.ok2, h), tried |-> <<args, <<>>>>]
        ELSE [tagger |-> first, tried |-> <<args>>]

\* The handles initialize releases.
ReleasedByInitialize(oldTagger) == {}

\* cabocha_available_ after initialize.
CaboChaAvailableAfter(tagger, parser, available) ==
    IF tagger # NULL /\ parser # NULL THEN TRUE ELSE available

\* cabocha_parser_ after initialize.
CaboChaParserAfter(parser, enable, works) == parser

\* Mutant: the probe is given the handle of the first attempt.
ProbeTarget_FirstAttempt(first, held) == first

\* The tagger testMeCabCharset is called with: mecab_tagger_ as it stands
\* after the attempts.
ProbeTarget(first, held) == held

\* Mutant: an enabled secondary engine that is not available fails the call.
InitReturn_NeedsCaboCha(tagger, available) ==
    tagger # NULL /\ (enable_cabocha_ => available)

InitReturn(tagger, available) == tagger # NULL

\* The whole call: the manager's fields afterwards, and the return value.
initialize(mecabDicPath, mecabCharset, env, h) ==
    LET systemMeCab == systemMeCabOf(mecabDicPath, env)
        resolved == ResolveCharset(mecabCharset, systemMeCab)
        args == mecab_args(mecabDicPath, systemMeCab)
        made == ConstructPrimary(mecab_tagger_, args, env, h)
        tagger == made.tagger
        parser == CaboChaParserAfter(cabocha_parser_, enable_cabocha_, cabochaWorks)
        available == CaboChaAvailableAfter(tagger, parser, cabocha_available_)
        probed == IF tagger = NULL THEN NULL
                  ELSE ProbeTarget(createTagger(env.ok1, h), tagger)
    IN  [mecab_tagger_ |-> tagger,
         cabocha_parser_ |-> parser,
         system_charset_ |-> IF tagger = NULL THEN resolved
                             ELSE testMeCabCharset(probed, resolved, env.probeParse),
         probed |-> probed,
         cabocha_available_ |-> available,
         info |-> systemMeCab,
         resolved |-> resolved,
         args |-> args,
         tried |-> made.tried,
         released |-> ReleasedByInitialize(mecab_tagger_),
         ret |-> InitReturn(tagger, available)]

\* Environments that differ only in answers the call never asks for are
\* the same call: the unused answers are fixed.
Relevant(mecabDicPath, mecabCharset, env) ==
    LET systemMeCab == systemMeCabOf(mecabDicPath, env)
        resolved == ResolveCharset(mecabCharset, systemMeCab)
        args == mecab_args(mecabDicPath, systemMeCab)
        declared == IF mecabDicPath = "" /\ env.dicdir # "" THEN env.dicrc ELSE ""
        probes == declared # "" /\ declared # UTF8
        success == env.ok1 \/ (args # <<>> /\ env.ok2)
    IN  /\ mecabDicPath # "" => env.dicdir = ""
        /\ env.dicdir = "" => env.dicrc = ""
        /\ ~probes => ~env.testOk
        /\ ~env.testOk => env.testParse = <<>>
        /\ (env.ok1 \/ args = <<>>) => ~env.ok2
        /\ (~success \/ resolved = UTF8) => env.probeParse = <<>>

-----------------------------------------------------------------------------
(* Positions: lines and UTF-16 columns.                                    *)

\* Bytes of the UTF-8 sequence a lead byte c announces, as computeByteOffset
\* reads it.
seqLen(c) == IF c >= 240 THEN 4 ELSE IF c >= 224 THEN 3 ELSE IF c >= 192 THEN 2 ELSE 1

\* computeLineStarts: the byte offset of the first byte of every line; a
\* line ends with '\n'.
RECURSIVE LineStartsFrom(_, _)
LineStartsFrom(text, i) ==
    IF i > Len(text) THEN <<>>
    ELSE (IF text[i] = LF THEN <<i>> ELSE <<>>) \o LineStartsFrom(text, i + 1)

computeLineStarts(text) == <<0>> \o LineStartsFrom(text, 1)

\* utf8ToUtf16Length: 2 code units for a 4-byte sequence, 1 for any other.
RECURSIVE utf8ToUtf16Length(_)
utf8ToUtf16Length(u) ==
    IF u = <<>> THEN 0
    ELSE LET n == IF Head(u) >= 240 THEN 4
                  ELSE IF Head(u) >= 224 THEN 3
                  ELSE IF Head(u) >= 192 THEN 2 ELSE 1
         IN  (IF n = 4 THEN 2 ELSE 1)
             + utf8ToUtf16Length(SubSeq(u, n + 1, Len(u)))

\* byteOffsetToPosition: the line whose start is the last one at or before
\* the offset, and the UTF-16 length of the text from that start to the
\* offset.
byteOffsetToPosition(text, lineStarts, offset) ==
    LET line == CHOOSE l \in 0..(Len(lineStarts) - 1) :
                    /\ lineStarts[l + 1] <= offset
                    /\ \A m \in (l + 1)..(Len(lineStarts) - 1) : lineStarts[m + 1] > offset
        end == IF offset < Len(text) THEN offset ELSE Len(text)
    IN  [line |-> line,
         character |-> utf8ToUtf16Length(SubSeq(text, lineStarts[line + 1] + 1, end))]

\* Mutant: the loop does not stop at '\n'.
RECURSIVE OffsetLoop_PastNewline(_, _, _, _)
OffsetLoop_PastNewline(text, bytePos, utf16Pos, character) ==
    IF bytePos < Len(text) /\ utf16Pos < character
    THEN LET n == seqLen(text[bytePos + 1])
         IN  OffsetLoop_PastNewline(text, bytePos + n,
                                    utf16Pos + (IF n = 4 THEN 2 ELSE 1), character)
    ELSE bytePos

\* The loop of computeByteOffset.
RECURSIVE OffsetLoop(_, _, _, _)
OffsetLoop(text, bytePos, utf16Pos, character) ==
    IF bytePos < Len(text) /\ utf16Pos < character /\ text[bytePos + 1] # LF
    THEN LET n == seqLen(text[bytePos + 1])
         IN  OffsetLoop(text, bytePos + n, utf16Pos + (IF n = 4 THEN 2 ELSE 1), character)
    ELSE bytePos

\* computeByteOffset(text, line, character), for line >= 0.
computeByteOffset(text, line, character) ==
    LET lineStarts == computeLineStarts(text)
    IN  IF line >= Len(lineStarts) THEN Len(text)
        ELSE OffsetLoop(text, lineStarts[line + 1], 0, character)

-----------------------------------------------------------------------------
(* Analyzer::analyzeText.                                                  *)

\* The realignment loop: from currentBytePos, step one byte at a time until
\* the text at the position is the surface, or the text ends.
\* Mutant: the scan starts again at the beginning of the text.
ScanForward_Restart(cleanText, surface, currentBytePos) ==
    LET matches == {o \in 0..(Len(cleanText) - 1) :
                       /\ Len(cleanText) - o >= Len(surface)
                       /\ SubSeq(cleanText, o + 1, o + Len(surface)) = surface}
    IN  IF matches = {} THEN Len(cleanText)
        ELSE CHOOSE o \in matches : \A q \in matches : o <= q

RECURSIVE ScanForward(_, _, _)
ScanForward(cleanText, surface, currentBytePos) ==
    IF currentBytePos < Len(cleanText)
    THEN IF /\ Len(cleanText) - currentBytePos >= Len(surface)
            /\ SubSeq(cleanText, currentBytePos + 1, currentBytePos + Len(surface)) = surface
         THEN currentBytePos
         ELSE ScanForward(cleanText, surface, currentBytePos + 1)
    ELSE currentBytePos

\* Mutant: the cursor stays where the token was matched.
AdvanceCursor_Stay(bytePos, surface) == bytePos

\* currentBytePos after a token matched at bytePos has been appended.
AdvanceCursor(bytePos, surface) == bytePos + Len(surface)

\* Mutant: a node with an empty surface yields a token.
SkipNode_NoEmpty(n, surface) == IsSentinel(n)

\* A node yields no token.
SkipNode(n, surface) == IsSentinel(n) \/ surface = <<>>

\* Mutant: the width of a token is the byte length of its surface.
TokenEndChar_Bytes(character, surface) == character + Len(surface)

\* token.endChar
TokenEndChar(character, surface) == character + utf8ToUtf16Length(surface)

\* The token of a node whose surface was placed at bytePos.
MakeToken(cleanText, surface, bytePos) ==
    LET pos == byteOffsetToPosition(cleanText, computeLineStarts(cleanText), bytePos)
    IN  [surface |-> surface,
         bytePos |-> bytePos,
         line |-> pos.line,
         startChar |-> pos.character,
         endChar |-> TokenEndChar(pos.character, surface)]

\* The node loop.  acc.tokens are the tokens so far (bytePos is the value of
\* currentBytePos the position of the token is computed from), acc.cursor
\* is currentBytePos, acc.cursors its value after each node, acc.scans the
\* value of currentBytePos before the scan of each token (from), after it
\* (to) and after the token was appended (next).
RECURSIVE NodeLoop(_, _, _, _)
NodeLoop(cleanText, node, charset, acc) ==
    IF node = <<>> THEN acc
    ELSE LET n == Head(node)
             surface == systemToUtf8(n.surface, charset)
         IN  IF SkipNode(n, surface)
             THEN NodeLoop(cleanText, Tail(node), charset,
                           [acc EXCEPT !.cursors = Append(@, acc.cursor)])
             ELSE LET bytePos == ScanForward(cleanText, surface, acc.cursor)
                      next == AdvanceCursor(bytePos, surface)
                  IN  NodeLoop(cleanText, Tail(node), charset,
                               [tokens |-> Append(acc.tokens,
                                                  MakeToken(cleanText, surface, bytePos)),
                                cursor |-> next,
                                cursors |-> Append(acc.cursors, next),
                                scans |-> Append(acc.scans,
                                                 [from |-> acc.cursor, to |-> bytePos,
                                                  next |-> next])])

\* Mutant: currentBytePos is kept from the call before.
StartCursor_Carried ==
    IF last.cursors = <<>> THEN 0 ELSE last.cursors[Len(last.cursors)]

\* currentBytePos when the node loop begins.
StartCursor == 0

NoTokens == [tokens |-> <<>>, cursors |-> <<>>, scans |-> <<>>, parseCalls |-> 0,
             cleanText |-> <<>>, systemText |-> <<>>]

\* Mutant: an empty text goes on to the tagger.
analyzeText_NoEmptyCheck(text, parse) ==
    LET cleanText == sanitizeUTF8(text)
        systemText == utf8ToSystem(cleanText, analyzer_charset_)
    IN  IF mecab_tagger_ = NULL THEN NoTokens
        ELSE IF parse = <<>>
             THEN [NoTokens EXCEPT !.parseCalls = 1, !.cleanText = cleanText,
                                   !.systemText = systemText]
        ELSE LET r == NodeLoop(cleanText, parse, analyzer_charset_,
                               [tokens |-> <<>>, cursor |-> StartCursor,
                                cursors |-> <<StartCursor>>, scans |-> <<>>])
             IN  [tokens |-> r.tokens, cursors |-> r.cursors, scans |-> r.scans,
                  parseCalls |-> 1, cleanText |-> cleanText,
                  systemText |-> systemText]

\* tokens: the return value; parseCalls: calls of Tagger::parseToNode;
\* systemText: what the tagger was given.
analyzeText(text, parse) ==
    IF text = <<>> THEN NoTokens
    ELSE LET cleanText == sanitizeUTF8(text)
             systemText == utf8ToSystem(cleanText, analyzer_charset_)
         IN  IF mecab_tagger_ = NULL THEN NoTokens
             ELSE IF parse = <<>>
                  THEN [NoTokens EXCEPT !.parseCalls = 1, !.cleanText = cleanText,
                                        !.systemText = systemText]
             ELSE LET r == NodeLoop(cleanText, parse, analyzer_charset_,
                                    [tokens |-> <<>>, cursor |-> StartCursor,
                                     cursors |-> <<StartCursor>>,
                                     scans |-> <<>>])
                  IN  [tokens |-> r.tokens, cursors |-> r.cursors, scans |-> r.scans,
                       parseCalls |-> 1, cleanText |-> cleanText,
                       systemText |-> systemText]

-----------------------------------------------------------------------------
(* Analyzer::analyzeDependencies.                                          *)

\* A chunk of a CaboCha tree; null stands for a nullptr chunk.
Chunk(link, score, pos, size) ==
    [null |-> FALSE, link |-> link, score |-> score, token_pos |-> pos, token_size |-> size]
NullChunk == [null |-> TRUE, link |-> 0, score |-> 0, token_pos |-> 0, token_size |-> 0]

\* What cabocha_sparse_totree may return; ok = FALSE stands for nullptr.
NullTree == [ok |-> FALSE, chunks |-> <<>>, tokens |-> <<>>]
Trees ==
    { NullTree,
      [ok |-> TRUE, chunks |-> <<>>, tokens |-> <<>>],
      [ok |-> TRUE, chunks |-> <<Chunk(1, 3, 0, 1), Chunk(-1, 0, 1, 2)>>,
       tokens |-> <<ByteA, GoEuc>>],
      [ok |-> TRUE, chunks |-> <<Chunk(2, 1, 0, 1), NullChunk, Chunk(-1, 0, 1, 1)>>,
       tokens |-> <<GoUtf8, ByteA>>] }

\* The text of a chunk: the decoded surfaces of tokens j, startToken <= j <
\* endToken, j below the tree's token count.
RECURSIVE chunkText(_, _, _, _)
chunkText(tree, j, endToken, charset) ==
    IF j < endToken /\ j < Len(tree.tokens)
    THEN systemToUtf8(tree.tokens[j + 1], charset) \o chunkText(tree, j + 1, endToken, charset)
    ELSE <<>>

RECURSIVE ChunkLoop(_, _, _)
ChunkLoop(tree, i, charset) ==
    IF i < Len(tree.chunks)
    THEN LET chunk == tree.chunks[i + 1]
         IN  IF chunk.null THEN ChunkLoop(tree, i + 1, charset)
             ELSE <<[chunkId |-> i, headId |-> chunk.link, score |-> chunk.score,
                     text |-> chunkText(tree, chunk.token_pos,
                                        chunk.token_pos + chunk.token_size, charset)]>>
                  \o ChunkLoop(tree, i + 1, charset)
    ELSE <<>>

\* Whether the call reaches cabocha_sparse_totree.
ReachesCaboCha == MOZUKU_ENABLE_CABOCHA /\ cabocha_available_ /\ cabocha_parser_ # NULL

analyzeDependencies(text, tree) ==
    IF ~MOZUKU_ENABLE_CABOCHA THEN <<>>
    ELSE IF ~cabocha_available_ THEN <<>>
    ELSE IF cabocha_parser_ = NULL THEN <<>>
    ELSE IF ~tree.ok THEN <<>>
    ELSE ChunkLoop(tree, 0, analyzer_charset_)

-----------------------------------------------------------------------------
(* Accessors.                                                              *)

isInitialized == alive /\ mecab_tagger_ # NULL
isCaboChaAvailable == alive /\ cabocha_available_
getSystemCharset == analyzer_charset_

-----------------------------------------------------------------------------
(* The record of a call.                                                   *)

NoInfo == [isAvailable |-> FALSE, dicPath |-> "", charset |-> ""]

NoCall ==
    [op |-> "none",
     \* initialize
     cfgCharset |-> "",      \* config.mecab.charset (Analyzer::initialize)
     mecabDicPath |-> "",    \* arguments of MeCabManager::initialize
     mecabCharset |-> "",
     env |-> NoEnv,
     info |-> NoInfo,        \* systemMeCab
     resolved |-> "",        \* system_charset_ before the construction attempts
     args |-> <<>>,          \* mecab_args
     tried |-> <<>>,         \* arguments of the createTagger calls for mecab_tagger_
     held |-> NULL,          \* mecab_tagger_ when the call began
     probed |-> NULL,        \* the tagger testMeCabCharset was called with
     released |-> {},        \* handles the call released
     before |-> <<>>,        \* the manager's fields when the call began
     ret |-> FALSE,
     \* analyzeText / analyzeDependencies
     text |-> <<>>,
     parse |-> <<>>,
     tokens |-> <<>>,
     cursors |-> <<>>,
     scans |-> <<>>,
     cleanText |-> <<>>,
     parseCalls |-> 0,
     again |-> FALSE,        \* the call repeats the call before it
     tree |-> NullTree,
     \* computeByteOffset
     line |-> 0,
     character |-> 0,
     offset |-> 0,
     deps |-> <<>>]

\* The execution contexts.  at is where the context stands in its call,
\* tagger the handle it is using: parsing with it, or reading the nodes the
\* parse returned, which belong to the handle.
Contexts == 1..NumContexts
IdleContext == [at |-> "idle", tagger |-> NULL]

-----------------------------------------------------------------------------
(* Construction and destruction.                                           *)

\* MeCabManager::MeCabManager(enableCaboCha), and Analyzer::Analyzer, which
\* makes its manager with enableCaboCha = true.
Constructed(o, enableCaboCha) ==
    /\ owner' = o
    /\ alive' = TRUE
    /\ mecab_tagger_' = NULL
    /\ cabocha_parser_' = NULL
    /\ system_charset_' = UTF8
    /\ cabocha_available_' = FALSE
    /\ enable_cabocha_' = enableCaboCha
    /\ analyzer_charset_' = ""
    /\ initState' = "Uninitialized"
    /\ pc' = "idle"
    /\ last' = NoCall

Init ==
    /\ \E o \in {"manager", "analyzer"}, e \in BOOLEAN :
        /\ o = "analyzer" => e
        /\ owner = o
        /\ enable_cabocha_ = e
    /\ alive = TRUE
    /\ mecab_tagger_ = NULL
    /\ cabocha_parser_ = NULL
    /\ system_charset_ = UTF8
    /\ cabocha_available_ = FALSE
    /\ analyzer_charset_ = ""
    /\ liveTaggers = {}
    /\ liveParsers = {}
    /\ nextHandle = 1
    /\ MOZUKU_ENABLE_CABOCHA \in BOOLEAN
    /\ cabochaWorks \in BOOLEAN
    /\ initState = "Uninitialized"
    /\ pc = "idle"
    /\ last = NoCall
    /\ contexts = [c \in Contexts |-> IdleContext]
    /\ serialized = TRUE

\* A new object replaces a destroyed one.
Construct ==
    /\ ~alive
    /\ \E o \in {"manager", "analyzer"}, e \in BOOLEAN :
        /\ o = "analyzer" => e
        /\ Constructed(o, e)
    /\ UNCHANGED <<liveTaggers, liveParsers, nextHandle, MOZUKU_ENABLE_CABOCHA, cabochaWorks,
                   contexts, serialized>>

\* MeCabManager::~MeCabManager (run by Analyzer::~Analyzer for its manager).
Destroy ==
    /\ alive
    /\ pc = "idle"
    /\ alive' = FALSE
    /\ liveParsers' = liveParsers \ {cabocha_parser_}
    /\ liveTaggers' = liveTaggers \ {mecab_tagger_}
    /\ cabocha_parser_' = NULL
    /\ mecab_tagger_' = NULL
    /\ UNCHANGED <<owner, system_charset_, cabocha_available_, enable_cabocha_,
                   analyzer_charset_, nextHandle, MOZUKU_ENABLE_CABOCHA, cabochaWorks,
                   contexts, serialized,
                   initState, pc, last>>

-----------------------------------------------------------------------------
(* initialize.                                                             *)

ManagerFields ==
    [mecab_tagger_ |-> mecab_tagger_, cabocha_parser_ |-> cabocha_parser_,
     system_charset_ |-> system_charset_, cabocha_available_ |-> cabocha_available_]

\* The effect of MeCabManager::initialize(mecabDicPath, mecabCharset) on the
\* manager and on the engine library's handles.
RunInitialize(cfgCharset, mecabDicPath, mecabCharset, env) ==
    LET r == initialize(mecabDicPath, mecabCharset, env, nextHandle)
        made == {r.mecab_tagger_} \ {NULL}
    IN  /\ mecab_tagger_' = r.mecab_tagger_
        /\ cabocha_parser_' = r.cabocha_parser_
        /\ system_charset_' = r.system_charset_
        /\ cabocha_available_' = r.cabocha_available_
        /\ liveTaggers' = (liveTaggers \ r.released) \cup made
        /\ liveParsers' = liveParsers \cup ({r.cabocha_parser_} \ {NULL})
        /\ nextHandle' = IF made = {} THEN nextHandle ELSE nextHandle + 1
        /\ initState' = IF r.ret THEN "Ready" ELSE "Failed"
        /\ pc' = "returned"
        /\ last' = [NoCall EXCEPT !.op = "initialize",
                                  !.cfgCharset = cfgCharset,
                                  !.mecabDicPath = mecabDicPath,
                                  !.mecabCharset = mecabCharset,
                                  !.env = env,
                                  !.info = r.info,
                                  !.resolved = r.resolved,
                                  !.args = r.args,
                                  !.tried = r.tried,
                                  !.held = mecab_tagger_,
                                  !.probed = r.probed,
                                  !.released = r.released,
                                  !.before = <<ManagerFields>>,
                                  !.ret = r.ret]
        /\ UNCHANGED <<owner, alive, enable_cabocha_, MOZUKU_ENABLE_CABOCHA, cabochaWorks,
                   contexts, serialized>>

\* MeCabManager::initialize called on a bare manager.
ManagerInitialize ==
    /\ alive
    /\ owner = "manager"
    /\ pc = "idle"
    /\ nextHandle <= MaxHandles
    /\ \E mecabDicPath \in DicPaths, mecabCharset \in Charsets \cup {""}, env \in Envs :
        /\ Relevant(mecabDicPath, mecabCharset, env)
        /\ RunInitialize("", mecabDicPath, mecabCharset, env)
    /\ UNCHANGED analyzer_charset_

\* The charset Analyzer::initialize passes to its manager.
AnalyzerCharsetArg(configCharset) == IF configCharset = "" THEN UTF8 ELSE configCharset

\* Analyzer::initialize(config).
AnalyzerInitialize ==
    /\ alive
    /\ owner = "analyzer"
    /\ pc = "idle"
    /\ nextHandle <= MaxHandles
    /\ \E dicPath \in DicPaths, charset \in Charsets \cup {""}, env \in Envs :
        LET mecabCharset == AnalyzerCharsetArg(charset)
        IN  /\ Relevant(dicPath, mecabCharset, env)
            /\ RunInitialize(charset, dicPath, mecabCharset, env)
            /\ analyzer_charset_' =
                  IF initialize(dicPath, mecabCharset, env, nextHandle).ret
                  THEN system_charset_'
                  ELSE analyzer_charset_

-----------------------------------------------------------------------------
(* analyzeText and analyzeDependencies.                                    *)

\* Analyzer::analyzeText(text), the tagger answering parse.
CallAnalyzeText(text, parse) ==
    /\ alive
    /\ owner = "analyzer"
    \* the tagger answers only when it is asked
    /\ (text = <<>> \/ mecab_tagger_ = NULL) => parse = <<>>
    /\ LET r == analyzeText(text, parse)
       IN  last' = [NoCall EXCEPT !.op = "analyzeText",
                                  !.text = text,
                                  !.parse = parse,
                                  !.before = <<ManagerFields>>,
                                  !.tokens = r.tokens,
                                  !.cursors = r.cursors,
                                  !.scans = r.scans,
                                  !.cleanText = r.cleanText,
                                  !.parseCalls = r.parseCalls,
                                  !.again = (last.op = "analyzeText")]
    /\ pc' = "returned"
    /\ UNCHANGED <<owner, alive, mecab_tagger_, cabocha_parser_, system_charset_,
                   cabocha_available_, enable_cabocha_, analyzer_charset_, liveTaggers,
                   liveParsers, nextHandle, MOZUKU_ENABLE_CABOCHA, cabochaWorks,
                   contexts, serialized, initState>>

AnalyzeText ==
    /\ pc = "idle"
    /\ \E text \in Texts, parse \in Parses : CallAnalyzeText(text, parse)

AnalyzeDependencies ==
    /\ alive
    /\ owner = "analyzer"
    /\ pc = "idle"
    /\ \E text \in Texts, tree \in Trees :
        /\ ~ReachesCaboCha => tree = NullTree
        /\ last' = [NoCall EXCEPT !.op = "analyzeDependencies",
                                  !.text = text,
                                  !.tree = tree,
                                  !.deps = analyzeDependencies(text, tree)]
    /\ pc' = "returned"
    /\ UNCHANGED <<owner, alive, mecab_tagger_, cabocha_parser_, system_charset_,
                   cabocha_available_, enable_cabocha_, analyzer_charset_, liveTaggers,
                   liveParsers, nextHandle, MOZUKU_ENABLE_CABOCHA, cabochaWorks,
                   contexts, serialized, initState>>

\* The caller takes the result of the call; the next call may follow.
Resume ==
    /\ pc = "returned"
    /\ pc' = "idle"
    /\ last' = NoCall
    /\ UNCHANGED <<owner, alive, mecab_tagger_, cabocha_parser_, system_charset_,
                   cabocha_available_, enable_cabocha_, analyzer_charset_, liveTaggers,
                   liveParsers, nextHandle, MOZUKU_ENABLE_CABOCHA, cabochaWorks,
                   contexts, serialized, initState>>

Next ==
    \/ Construct
    \/ Destroy
    \/ ManagerInitialize
    \/ AnalyzerInitialize
    \/ AnalyzeText
    \/ AnalyzeDependencies
    \/ Resume

Spec == Init /\ [][Next]_vars

-----------------------------------------------------------------------------
(* One Analyzer, initialized once, analysing texts with line breaks and    *)
(* characters of every length, and the position helper computeByteOffset.  *)

\* The build without CaboCha support: analyzeText and computeByteOffset do
\* not depend on it.
InitAlign == Init /\ owner = "analyzer" /\ ~MOZUKU_ENABLE_CABOCHA /\ ~cabochaWorks

\* Analyzer::initialize on the fresh Analyzer.
AlignInitialize == initState = "Uninitialized" /\ AnalyzerInitialize

AlignAnalyzeText ==
    /\ pc = "idle"
    /\ \E text \in AlignTexts, parse \in AlignParses : CallAnalyzeText(text, parse)

\* The caller analyses the same text again at once, and the tagger, being
\* deterministic, answers as before.
RepeatAnalyzeText ==
    /\ pc = "returned"
    /\ last.op = "analyzeText"
    /\ CallAnalyzeText(last.text, last.parse)

\* computeByteOffset(text, line, character), a free function.
ComputeByteOffset ==
    /\ pc = "idle"
    /\ \E text \in OffsetTexts, line \in 0..(MaxAlignChars + 1),
          character \in 0..(2 * MaxAlignChars + 1) :
        last' = [NoCall EXCEPT !.op = "computeByteOffset",
                               !.text = text,
                               !.line = line,
                               !.character = character,
                               !.offset = computeByteOffset(text, line, character)]
    /\ pc' = "returned"
    /\ UNCHANGED <<owner, alive, mecab_tagger_, cabocha_parser_, system_charset_,
                   cabocha_available_, enable_cabocha_, analyzer_charset_, liveTaggers,
                   liveParsers, nextHandle, MOZUKU_ENABLE_CABOCHA, cabochaWorks,
                   contexts, serialized, initState>>

NextAlign ==
    \/ AlignInitialize
    \/ AlignAnalyzeText
    \/ RepeatAnalyzeText
    \/ ComputeByteOffset
    \/ Resume

SpecAlign == InitAlign /\ [][NextAlign]_vars

-----------------------------------------------------------------------------
(* Several execution contexts calling one Analyzer.  The code takes no     *)
(* lock, so the calls are taken apart into the steps at which they touch   *)
(* mecab_tagger_ and the handle: Analyzer::initialize constructs the       *)
(* tagger, probes it and returns; analyzeText reads the tagger, parses,    *)
(* walks the nodes and returns.                                            *)

InCall(c) == contexts[c].at # "idle"

\* The callers' discipline: the call context c begins is serialized when no
\* other context is inside a call.
SerializedStart(c) == serialized /\ \A d \in Contexts \ {c} : ~InCall(d)

\* Mutant: the call returns while the handle is still in use for it.
AfterAnalyze_StillUsing(ctx) == [at |-> "idle", tagger |-> ctx.tagger]

\* The context when analyzeText has returned: the parse and the walk over
\* its nodes are over.
AfterAnalyze(ctx) == IdleContext

\* Analyzer::initialize up to the construction of the tagger.
BeginInitialize(c) ==
    /\ alive
    /\ owner = "analyzer"
    /\ contexts[c].at = "idle"
    /\ nextHandle <= MaxHandles
    /\ \E ok \in BOOLEAN, charset \in Charsets :
        LET made == ConstructPrimary(mecab_tagger_, <<>>, [NoEnv EXCEPT !.ok1 = ok],
                                     nextHandle)
        IN  /\ system_charset_' = charset
            /\ mecab_tagger_' = made.tagger
            /\ liveTaggers' = liveTaggers \cup ({made.tagger} \ {NULL})
            /\ nextHandle' = IF made.tagger = NULL THEN nextHandle ELSE nextHandle + 1
            /\ initState' = IF made.tagger = NULL THEN "Failed" ELSE initState
            /\ contexts' = [contexts EXCEPT ![c] =
                                IF made.tagger = NULL THEN IdleContext
                                ELSE [at |-> "constructed", tagger |-> NULL]]
    /\ serialized' = SerializedStart(c)
    /\ UNCHANGED <<owner, alive, cabocha_parser_, cabocha_available_, enable_cabocha_,
                   analyzer_charset_, liveParsers, MOZUKU_ENABLE_CABOCHA, cabochaWorks,
                   pc, last>>

\* testMeCabCharset(mecab_tagger_, system_charset_) up to parseToNode.
BeginProbe(c) ==
    /\ contexts[c].at = "constructed"
    /\ contexts' = [contexts EXCEPT ![c] =
                        IF mecab_tagger_ = NULL \/ system_charset_ = UTF8
                        THEN [at |-> "probed", tagger |-> NULL]
                        ELSE [at |-> "probing", tagger |-> mecab_tagger_]]
    /\ UNCHANGED <<owner, alive, mecab_tagger_, cabocha_parser_, system_charset_,
                   cabocha_available_, enable_cabocha_, analyzer_charset_, liveTaggers,
                   liveParsers, nextHandle, MOZUKU_ENABLE_CABOCHA, cabochaWorks,
                   initState, pc, last, serialized>>

\* The probe's parse returns and system_charset_ is assigned.
EndProbe(c) ==
    /\ contexts[c].at = "probing"
    /\ \E testNode \in ProbeParses :
        system_charset_' = testMeCabCharset(contexts[c].tagger, system_charset_, testNode)
    /\ contexts' = [contexts EXCEPT ![c] = [at |-> "probed", tagger |-> NULL]]
    /\ UNCHANGED <<owner, alive, mecab_tagger_, cabocha_parser_,
                   cabocha_available_, enable_cabocha_, analyzer_charset_, liveTaggers,
                   liveParsers, nextHandle, MOZUKU_ENABLE_CABOCHA, cabochaWorks,
                   initState, pc, last, serialized>>

\* MeCabManager::initialize returns and Analyzer::initialize takes the
\* charset.
EndInitialize(c) ==
    /\ contexts[c].at = "probed"
    /\ initState' = IF InitReturn(mecab_tagger_, cabocha_available_) THEN "Ready"
                    ELSE "Failed"
    /\ analyzer_charset_' = IF InitReturn(mecab_tagger_, cabocha_available_)
                            THEN system_charset_ ELSE analyzer_charset_
    /\ contexts' = [contexts EXCEPT ![c] = IdleContext]
    /\ UNCHANGED <<owner, alive, mecab_tagger_, cabocha_parser_, system_charset_,
                   cabocha_available_, enable_cabocha_, liveTaggers,
                   liveParsers, nextHandle, MOZUKU_ENABLE_CABOCHA, cabochaWorks,
                   pc, last, serialized>>

\* analyzeText of a text that is not empty, up to parseToNode.
BeginAnalyze(c) ==
    /\ alive
    /\ owner = "analyzer"
    /\ contexts[c].at = "idle"
    /\ contexts' = [contexts EXCEPT ![c] =
                        IF mecab_tagger_ = NULL THEN IdleContext
                        ELSE [at |-> "parsing", tagger |-> mecab_tagger_]]
    /\ serialized' = SerializedStart(c)
    /\ UNCHANGED <<owner, alive, mecab_tagger_, cabocha_parser_, system_charset_,
                   cabocha_available_, enable_cabocha_, analyzer_charset_, liveTaggers,
                   liveParsers, nextHandle, MOZUKU_ENABLE_CABOCHA, cabochaWorks,
                   initState, pc, last>>

\* parseToNode returns; the node loop reads the nodes of the handle.
ParseReturns(c) ==
    /\ contexts[c].at = "parsing"
    /\ contexts' = [contexts EXCEPT ![c].at = "walking"]
    /\ UNCHANGED <<owner, alive, mecab_tagger_, cabocha_parser_, system_charset_,
                   cabocha_available_, enable_cabocha_, analyzer_charset_, liveTaggers,
                   liveParsers, nextHandle, MOZUKU_ENABLE_CABOCHA, cabochaWorks,
                   initState, pc, last, serialized>>

\* analyzeText returns.
EndAnalyze(c) ==
    /\ contexts[c].at = "walking"
    /\ contexts' = [contexts EXCEPT ![c] = AfterAnalyze(contexts[c])]
    /\ UNCHANGED <<owner, alive, mecab_tagger_, cabocha_parser_, system_charset_,
                   cabocha_available_, enable_cabocha_, analyzer_charset_, liveTaggers,
                   liveParsers, nextHandle, MOZUKU_ENABLE_CABOCHA, cabochaWorks,
                   initState, pc, last, serialized>>

NextConc ==
    \E c \in Contexts :
        \/ BeginInitialize(c)
        \/ BeginProbe(c)
        \/ EndProbe(c)
        \/ EndInitialize(c)
        \/ BeginAnalyze(c)
        \/ ParseReturns(c)
        \/ EndAnalyze(c)

SpecConc == InitAlign /\ [][NextConc]_vars

-----------------------------------------------------------------------------
(* Properties.                                                             *)

IsInitialize == last.op = "initialize"
IsAnalyzeText == last.op = "analyzeText"
IsAnalyzeDependencies == last.op = "analyzeDependencies"

\* C1: when initialize was given a dictionary path and both the construction
\* with it and the fallback construction failed, initialize returns false and
\* the object is not ready; an object whose latest initialize failed, or that
\* was never initialized, is not ready in any state, and analyzeText on it
\* returns no tokens and never calls the tagger.
C1_FailedInitializeUnusable ==
    /\ (IsInitialize /\ last.mecabDicPath # "" /\ ~last.env.ok1 /\ ~last.env.ok2)
          => (~last.ret /\ ~isInitialized /\ initState = "Failed")
    /\ (alive /\ initState # "Ready") => ~isInitialized
    /\ (IsAnalyzeText /\ initState # "Ready")
          => (last.tokens = <<>> /\ last.parseCalls = 0)

C1_Witness ==
    /\ IsAnalyzeText
    /\ initState = "Failed"
    /\ last.text # <<>>
    /\ last.tokens = <<>>

\* C2: the handles constructed and not released are exactly the handles the
\* manager holds: at most one tagger and one parser, none left over from an
\* earlier initialize.
C2_NoUnreleasedHandle ==
    /\ liveTaggers = {mecab_tagger_} \ {NULL}
    /\ liveParsers = {cabocha_parser_} \ {NULL}

\* C3: initialize first constructs the tagger with "-d <path>" when a
\* dictionary path is known (given, or discovered); when that fails it makes
\* exactly one more attempt, with the empty argument string; there are at
\* most two attempts; it returns false exactly when every attempt failed and
\* otherwise returns true holding a non-null tagger.
C3_PrimaryConstruction ==
    IsInitialize =>
        LET known == IF last.mecabDicPath # "" THEN last.mecabDicPath
                     ELSE last.info.dicPath
            attempts == Len(last.tried)
            allFailed == ~last.env.ok1 /\ (attempts = 2 => ~last.env.ok2)
        IN  /\ attempts \in {1, 2}
            /\ known # "" => (Len(last.tried[1]) >= 2 /\ last.tried[1][1] = "-d"
                              /\ last.tried[1][2] = known)
            /\ known = "" => last.tried[1] = <<>>
            /\ attempts = 2 <=> (~last.env.ok1 /\ known # "")
            /\ attempts = 2 => last.tried[2] = <<>>
            /\ last.ret <=> ~allFailed
            /\ last.ret <=> mecab_tagger_ # NULL

C3_Witness ==
    /\ IsInitialize
    /\ Len(last.tried) = 2
    /\ last.ret
    /\ mecab_tagger_ # NULL

\* C4: the tokens of one analyzeText call are in byte order and do not
\* overlap (each is placed at or after the end of the one before), and
\* currentBytePos never decreases during the call.
C4_TokensOrdered ==
    IsAnalyzeText =>
        /\ \A i \in 1..(Len(last.tokens) - 1) :
              last.tokens[i + 1].bytePos >=
                  last.tokens[i].bytePos + Len(last.tokens[i].surface)
        /\ \A i \in 1..(Len(last.cursors) - 1) : last.cursors[i + 1] >= last.cursors[i]

C4_Witness ==
    /\ IsAnalyzeText
    /\ Len(last.tokens) >= 2
    /\ last.tokens[1].bytePos + Len(last.tokens[1].surface) <= Len(last.cleanText)
    /\ last.tokens[2].bytePos < Len(last.cleanText)

\* C5: the charset initialize resolves before it constructs the tagger is
\* the charset of the configuration if there is one, else the discovered
\* charset if discovery ran and reported one, else UTF-8; the configuration
\* is the config of Analyzer::initialize for an Analyzer and the mecabCharset
\* argument for a bare manager.
C5_CharsetPrecedence ==
    IsInitialize =>
        LET explicit == IF owner = "analyzer" THEN last.cfgCharset ELSE last.mecabCharset
            discovered == IF last.mecabDicPath = "" THEN last.info.charset ELSE ""
        IN  last.resolved = IF explicit # "" THEN explicit
                            ELSE IF discovered # "" THEN discovered
                            ELSE UTF8

\* C6: an object is ready exactly when its latest initialize returned true,
\* and is not ready before any initialize; right after an initialize the
\* manager's charset and dependency capability are what this call's
\* arguments and environment give, whatever the manager held before.
C6_StateFromLatestInitialize ==
    /\ alive => (isInitialized <=> initState = "Ready")
    /\ initState = "Uninitialized" => ~isInitialized
    /\ IsInitialize =>
        LET resolved == IF last.mecabCharset # "" THEN last.mecabCharset
                        ELSE IF last.mecabDicPath = "" /\ last.info.charset # ""
                             THEN last.info.charset
                        ELSE UTF8
        IN  /\ isInitialized <=> last.ret
            /\ last.resolved = resolved
            /\ system_charset_ =
                  IF last.ret /\ resolved # UTF8 /\ utf8Works(last.env.probeParse)
                  THEN UTF8 ELSE resolved
            /\ cabocha_available_ <=> (last.ret /\ cabocha_parser_ # NULL)

\* A ready manager with one charset fails its next initialize, which leaves
\* another charset.
C6_Witness ==
    /\ IsInitialize
    /\ ~last.ret
    /\ last.held # NULL
    /\ last.before[1].system_charset_ # system_charset_

\* C7: after a successful initialize of a manager whose secondary engine is
\* enabled and constructible, the dependency capability is reported and the
\* parser handle is not null.
C7_SecondaryCapability ==
    (IsInitialize /\ last.ret /\ enable_cabocha_ /\ cabochaWorks)
        => (cabocha_available_ /\ cabocha_parser_ # NULL)

\* C8: the return value of initialize and readiness are decided by the
\* construction of the tagger alone, whether the secondary engine is
\* disabled, fails or works; and analyzeText consults the tagger exactly
\* when the object is ready and the text is not empty.
C8_SecondaryNonFatal ==
    /\ IsInitialize =>
        LET primary == last.env.ok1 \/ (Len(last.tried) = 2 /\ last.env.ok2)
        IN  /\ last.ret <=> primary
            /\ isInitialized <=> primary
    /\ IsAnalyzeText => (last.parseCalls = 1 <=> (isInitialized /\ last.text # <<>>))
    /\ (IsAnalyzeText /\ last.parseCalls = 0) => last.tokens = <<>>

\* initialize succeeds although the enabled secondary engine cannot be
\* constructed.
C8_Witness ==
    /\ IsInitialize
    /\ last.ret
    /\ enable_cabocha_
    /\ ~cabochaWorks
    /\ ~cabocha_available_

\* The chunk ids of a result are strictly increasing.
IncreasingChunkIds(deps) ==
    \A i \in 1..(Len(deps) - 1) : deps[i].chunkId < deps[i + 1].chunkId

\* C9: analyzeDependencies returns the empty sequence when the secondary
\* engine capability is absent, and a non-empty sequence with strictly
\* increasing chunk ids when it is present (the build has the engine, the
\* manager enables it, it is constructible and initialize succeeded).
C9_DependenciesByCapability ==
    IsAnalyzeDependencies =>
        LET present == /\ MOZUKU_ENABLE_CABOCHA
                       /\ enable_cabocha_
                       /\ cabochaWorks
                       /\ initState = "Ready"
        IN  /\ ~present => last.deps = <<>>
            /\ present => (last.deps # <<>> /\ IncreasingChunkIds(last.deps))

\* The surface occurs in the text at or after byte offset from.
Occurs(text, surface, from) ==
    \E o \in from..(Len(text) - Len(surface)) :
        SubSeq(text, o + 1, o + Len(surface)) = surface

\* The nodes of a parse that yield a token.
RECURSIVE ContentNodes(_, _)
ContentNodes(node, charset) ==
    IF node = <<>> THEN 0
    ELSE (IF SkipNode(Head(node), systemToUtf8(Head(node).surface, charset)) THEN 0 ELSE 1)
         + ContentNodes(Tail(node), charset)

\* C10: every token whose surface does not occur in the text at or after
\* the cursor is placed at the byte length of the text, and the call still
\* returns one token for every content node.
C10_UnmatchedAtEndOfText ==
    IsAnalyzeText =>
        /\ \A i \in 1..Len(last.tokens) :
              ~Occurs(last.cleanText, last.tokens[i].surface, last.scans[i].from)
                  => last.tokens[i].bytePos = Len(last.cleanText)
        /\ Len(last.tokens) = ContentNodes(last.parse, analyzer_charset_)

-----------------------------------------------------------------------------
(* Positions of tokens.                                                    *)

WellFormed(u) == sanitizeUTF8(u) = u

\* UTF-16 code units of well-formed UTF-8: one for every character, and one
\* more for every character of four bytes.
CodeUnits(u) ==
    Cardinality({i \in 1..Len(u) : ~IsCont(u[i])})
    + Cardinality({i \in 1..Len(u) : u[i] >= 240})

\* C13: for every token of analyzeText, endChar - startChar is the UTF-16
\* length of the surface: two code units for every character of four UTF-8
\* bytes and one for every other character.
C13_TokenWidth ==
    IsAnalyzeText =>
        \A i \in 1..Len(last.tokens) :
            LET t == last.tokens[i]
            IN  /\ t.endChar - t.startChar = utf8ToUtf16Length(t.surface)
                /\ WellFormed(t.surface) => t.endChar - t.startChar = CodeUnits(t.surface)

\* A call returned a token of four bytes and two code units, after a token
\* of three bytes and one code unit.
C13_Witness ==
    /\ IsAnalyzeText
    /\ Len(last.tokens) = 2
    /\ last.tokens[1].surface = GoUtf8
    /\ last.tokens[2].surface = Emoji
    /\ last.tokens[2].startChar = 1
    /\ last.tokens[2].endChar = 3

MatchesAt(text, surface, o) ==
    /\ o + Len(surface) <= Len(text)
    /\ SubSeq(text, o + 1, o + Len(surface)) = surface

\* C17: a token whose surface occurs in the text at or after the cursor is
\* placed at the smallest offset o at or after the cursor where the text
\* matches the surface byte for byte, and the cursor then is o plus the
\* byte length of the surface.
C17_EarliestMatch ==
    IsAnalyzeText =>
        \A i \in 1..Len(last.tokens) :
            LET t == last.tokens[i]
                sc == last.scans[i]
            IN  Occurs(last.cleanText, t.surface, sc.from) =>
                    /\ t.bytePos >= sc.from
                    /\ MatchesAt(last.cleanText, t.surface, t.bytePos)
                    /\ \A o \in sc.from..(t.bytePos - 1) :
                           ~MatchesAt(last.cleanText, t.surface, o)
                    /\ sc.next = t.bytePos + Len(t.surface)

\* The second token was found past the cursor, which stood behind the
\* first token.
C17_Witness ==
    /\ IsAnalyzeText
    /\ Len(last.tokens) = 2
    /\ last.scans[2].from = Len(last.tokens[1].surface)
    /\ last.tokens[2].bytePos > last.scans[2].from
    /\ MatchesAt(last.cleanText, last.tokens[2].surface, last.tokens[2].bytePos)

\* The decoded surfaces of the nodes that are no sentinels and whose decoded
\* surface is not empty, in the order of the nodes.
RECURSIVE TokenSurfaces(_, _)
TokenSurfaces(node, charset) ==
    IF node = <<>> THEN <<>>
    ELSE LET decoded == systemToUtf8(Head(node).surface, charset)
         IN  (IF Head(node).stat \in {MECAB_BOS_NODE, MECAB_EOS_NODE} \/ decoded = <<>>
              THEN <<>> ELSE <<decoded>>)
             \o TokenSurfaces(Tail(node), charset)

\* C19: sentinel nodes and nodes whose decoded surface is empty yield no
\* token and leave the cursor where it was; the tokens are those of the
\* other nodes, one each, in the order of the nodes.
C19_SkippedNodes ==
    (IsAnalyzeText /\ last.parse # <<>>) =>
        /\ [i \in 1..Len(last.tokens) |-> last.tokens[i].surface]
              = TokenSurfaces(last.parse, analyzer_charset_)
        /\ \A k \in 1..Len(last.parse) :
              LET n == last.parse[k]
              IN  (\/ n.stat \in {MECAB_BOS_NODE, MECAB_EOS_NODE}
                   \/ systemToUtf8(n.surface, analyzer_charset_) = <<>>)
                      => last.cursors[k + 1] = last.cursors[k]

\* A node whose surface is not empty but decodes to nothing followed a
\* node that yielded a token, between the two sentinels.
C19_Witness ==
    /\ IsAnalyzeText
    /\ Len(last.parse) = 4
    /\ last.parse[3].surface # <<>>
    /\ systemToUtf8(last.parse[3].surface, analyzer_charset_) = <<>>
    /\ Len(last.tokens) = 1
    /\ last.cursors[3] > 0
    /\ last.cursors[4] = last.cursors[3]

IsComputeByteOffset == last.op = "computeByteOffset"

\* The offset of the '\n' that ends the line, or the length of the text for
\* the last line.
LineEnd(text, line) ==
    LET lineStarts == computeLineStarts(text)
    IN  IF line + 1 < Len(lineStarts) THEN lineStarts[line + 2] - 1 ELSE Len(text)

C15_Idempotent ==
    [][/\ (last'.op = "analyzeText") =>
            /\ last'.before = <<ManagerFields>>
            /\ UNCHANGED <<mecab_tagger_, cabocha_parser_, system_charset_,
                           cabocha_available_, analyzer_charset_, liveTaggers,
                           liveParsers, initState>>
       /\ (/\ initState = "Ready"
           /\ IsAnalyzeText
           /\ last'.op = "analyzeText"
           /\ last'.text = last.text
           /\ last'.parse = last.parse) => last'.tokens = last.tokens]_vars

\* A call of a Ready Analyzer that repeated the call before it returned two
\* tokens.
C15_Witness ==
    /\ IsAnalyzeText
    /\ initState = "Ready"
    /\ last.again
    /\ Len(last.tokens) = 2
    /\ last.tokens[1].bytePos < last.tokens[2].bytePos

-----------------------------------------------------------------------------
(* The charset probe and the discovery.                                    *)

\* Parsing the test text returned a node that is no sentinel and whose
\* surface is six bytes long and byte-equal to the test text.
ProbeAccepts(parse) ==
    \E i \in 1..Len(parse) :
        /\ parse[i].stat \notin {MECAB_BOS_NODE, MECAB_EOS_NODE}
        /\ Len(parse[i].surface) = 6
        /\ parse[i].surface = <<232, 170, 164, 232, 167, 163>>

\* The discovery read a charset other than UTF-8 from dicrc.
DiscoveryProbes ==
    /\ IsInitialize
    /\ last.mecabDicPath = ""
    /\ last.env.dicdir # ""
    /\ last.env.dicrc \notin {"", UTF8}

\* C11: the probe switches the charset to UTF-8 exactly when parsing the
\* test text of 2 characters and 6 bytes returns a node that is no sentinel
\* and whose surface is 6 bytes long and byte-equal to the test text;
\* otherwise the declared (discovery) or resolved (initialize) charset is
\* kept.
C11_ProbeDecides ==
    /\ (IsInitialize /\ last.ret) =>
          system_charset_ =
              IF last.resolved # UTF8 /\ ProbeAccepts(last.env.probeParse)
              THEN UTF8 ELSE last.resolved
    /\ DiscoveryProbes =>
          last.info.charset =
              IF last.env.testOk /\ ProbeAccepts(last.env.testParse)
              THEN UTF8 ELSE last.env.dicrc

\* The probe of initialize accepted and replaced EUC-JP by UTF-8.
C11_Witness ==
    /\ IsInitialize
    /\ last.ret
    /\ last.resolved = EUCJP
    /\ ProbeAccepts(last.env.probeParse)
    /\ system_charset_ = UTF8

\* C12: the discovery always returns a result: isAvailable exactly when the
\* dictionary path is not empty, the charset is never empty, and it is
\* UTF-8 whenever dicrc declared none.
C12_DiscoveryResult ==
    (IsInitialize /\ last.mecabDicPath = "") =>
        /\ last.info.isAvailable <=> last.info.dicPath # ""
        /\ last.info.dicPath = last.env.dicdir
        /\ last.info.charset # ""
        /\ (last.env.dicdir = "" \/ last.env.dicrc = "") => last.info.charset = UTF8

\* The discovery found a dictionary whose dicrc declares no charset.
C12_Witness ==
    /\ IsInitialize
    /\ last.mecabDicPath = ""
    /\ last.env.dicdir # ""
    /\ last.env.dicrc = ""
    /\ last.info.isAvailable
    /\ last.info.charset = UTF8

\* C14: analyzeText("") returns no token in every state of the manager
\* (Uninitialized, Ready, Failed), without calling the tagger and without
\* changing the manager.
C14_EmptyText ==
    (IsAnalyzeText /\ last.text = <<>>) =>
        /\ last.tokens = <<>>
        /\ last.parseCalls = 0
        /\ last.before = <<ManagerFields>>

\* analyzeText("") returned on a Ready Analyzer.
C14_Witness ==
    /\ IsAnalyzeText
    /\ last.text = <<>>
    /\ initState = "Ready"
    /\ mecab_tagger_ # NULL

\* C18: after every successful initialize, also one that succeeded by the
\* second attempt, the probe was called with the tagger the manager holds,
\* and system_charset_ is the probe's result for it: UTF-8 if the probe
\* accepts, the resolved charset otherwise.  After a failed initialize the
\* probe was not called.
C18_ProbeOnHeldTagger ==
    IsInitialize =>
        /\ last.ret =>
              /\ mecab_tagger_ # NULL
              /\ last.probed = mecab_tagger_
              /\ ProbeAccepts(last.env.probeParse) => system_charset_ = UTF8
              /\ ~ProbeAccepts(last.env.probeParse) => system_charset_ = last.resolved
        /\ ~last.ret => last.probed = NULL

\* The second attempt made the tagger, and the probe on it replaced EUC-JP
\* by UTF-8.
C18_Witness ==
    /\ IsInitialize
    /\ last.ret
    /\ Len(last.tried) = 2
    /\ last.probed = mecab_tagger_
    /\ last.resolved = EUCJP
    /\ system_charset_ = UTF8

-----------------------------------------------------------------------------
(* Concurrent callers.                                                     *)

\* Two contexts use the same handle at the same time.
Overlap ==
    \E c, d \in Contexts :
        /\ c # d
        /\ contexts[c].tagger # NULL
        /\ contexts[c].tagger = contexts[d].tagger

\* C16: at most one parse is in flight against an engine handle at any
\* time: when two execution contexts call analyzeText (or initialize and
\* analyzeText) on the same Analyzer, their uses of the tagger never
\* overlap.
C16_NoOverlappingUse == ~Overlap

\* C16, amended: the uses never overlap as long as the callers serialize
\* their calls on the Analyzer; the code itself takes no lock.
C16_NoOverlapWhenSerialized == serialized => ~Overlap

\* With serialized callers a context parses on the tagger a second
\* initialize made, while the other context is outside any call.
C16_Witness ==
    /\ serialized
    /\ initState = "Ready"
    /\ nextHandle > 2
    /\ contexts[2].at = "parsing"
    /\ contexts[2].tagger = mecab_tagger_
    /\ contexts[1].at = "idle"

====
